---- MODULE Spec2Model ----
(***************************************************************************)
(* Model of the byte-oriented Huffman codec in src/src/huffman.cpp:        *)
(* class huffman_codec (frequency counter, radix sorter, tree builder,     *)
(* code generator, bit packer/unpacker) and the two entry points           *)
(* huffman_encode and huffman_decode.                                      *)
(*                                                                         *)
(* Representation choices.                                                 *)
(*  - A 32-bit machine word that is shifted or masked (code::value, the    *)
(*    int value of bitWrite, the unsigned data of bitRead) is a function   *)
(*    from bit position 0..31 (0 = least significant) to {0,1}.            *)
(*  - An unsigned int that is only added and compared (the counts, the     *)
(*    lengths) is a natural number.  TLC's integers are 32-bit signed, so  *)
(*    these wrap at 2^31 here where the program wraps at 2^32; UINT_MAX    *)
(*    is accordingly the largest value of that range.                      *)
(*  - A pointer into an array is the array's name and an index; a pointer  *)
(*    into a byte buffer is the offset from the buffer's start.            *)
(***************************************************************************)
EXTENDS Integers, Sequences, FiniteSets, TLC

\* ------------------------------------------------------------------ bounds
\* longest input handed to huffman_encode
MaxLen == 3
\* number of (bits, value) pairs written by one bit-packer run
MaxItems == 3
\* largest per-symbol count in the small frequency tables given to huff_tree
MaxCount == 3

\* ------------------------------------------------------- program constants
NumChars == 256
UINT_MAX == 2147483647
LAST_NODE == UINT_MAX
HeaderBytes == 1024

Chars == 0..(NumChars - 1)

\* ------------------------------------------------------------ 32-bit words
BitIdx == 0..31
ZeroWord == [i \in BitIdx |-> 0]

RECURSIVE Pow2(_)
Pow2(k) == IF k = 0 THEN 1 ELSE 2 * Pow2(k - 1)

RECURSIVE Pow10(_)
Pow10(k) == IF k = 0 THEN 1 ELSE 10 * Pow10(k - 1)

\* the word holding the natural number n (n < 2^31)
WordOf(n) == [i \in BitIdx |-> IF i <= 30 THEN (n \div Pow2(i)) % 2 ELSE 0]

\* w << k
Shl(w, k) == [i \in BitIdx |-> IF i >= k THEN w[i - k] ELSE 0]
\* w >> k on a signed int: the sign bit is shifted in
Sar(w, k) == [i \in BitIdx |-> IF i + k <= 31 THEN w[i + k] ELSE w[31]]
\* a | b,  a & b
BitOr(a, b) == [i \in BitIdx |-> IF a[i] = 1 \/ b[i] = 1 THEN 1 ELSE 0]
BitAnd(a, b) == [i \in BitIdx |-> IF a[i] = 1 /\ b[i] = 1 THEN 1 ELSE 0]
\* (1 << k) - 1 as an int, 0 <= k <= 31
LowMask(k) == [i \in BitIdx |-> IF i < k THEN 1 ELSE 0]
\* conversion of an int to unsigned char: the low 8 bits
LowByte(w) == w[0] + 2*w[1] + 4*w[2] + 8*w[3] + 16*w[4] + 32*w[5] + 64*w[6] + 128*w[7]
\* bit i of a byte
ByteBit(b, i) == (b \div Pow2(i)) % 2
\* the byte b promoted to int
WordOfByte(b) == [i \in BitIdx |-> IF i < 8 THEN ByteBit(b, i) ELSE 0]

\* unsigned int addition and subtraction (wrap-around)
AddU(a, b) == IF a > UINT_MAX - b THEN (a - (UINT_MAX - b)) - 1 ELSE a + b
SubU(a, b) == IF a >= b THEN a - b ELSE (UINT_MAX - (b - a)) + 1

\* ------------------------------------------------------------ bit cursors
\* struct bit_cursor / bit_cursor_read: bytePtr is an offset into the buffer
Cursor(p, b) == [bytePtr |-> p, curBit |-> b]

\* *cursor.bytePtr |= v   (buffer offsets start at 0, sequences at 1)
OrByte(buf, p, v) ==
    [buf EXCEPT ![p + 1] = LowByte(BitOr(WordOfByte(buf[p + 1]), v))]

\* writes the low "bits" bits of value at the cursor; yields the new buffer
\* and cursor
RECURSIVE bitWrite(_, _, _, _)
bitWrite(bits, value, cursor, buf) ==
    IF bits <= 0
    THEN [buf |-> buf, cursor |-> cursor]
    ELSE LET bitsLeftInByte == 8 - cursor.curBit IN
         IF bits < bitsLeftInByte
         THEN LET b1 == OrByte(buf, cursor.bytePtr, Shl(value, bitsLeftInByte - bits))
                  cb == cursor.curBit + bits
                  c1 == IF cb >= 8
                        THEN Cursor(cursor.bytePtr + 1, 0)
                        ELSE Cursor(cursor.bytePtr, cb)
              IN bitWrite(0, value, c1, b1)
         ELSE LET b1 == OrByte(buf, cursor.bytePtr, Sar(value, bits - bitsLeftInByte))
                  v1 == BitAnd(value, LowMask(bits - bitsLeftInByte))
              IN bitWrite(bits - bitsLeftInByte, v1, Cursor(cursor.bytePtr + 1, 0), b1)

\* *cursor.bytePtr for reading; a byte past the end of the buffer reads as
\* whatever lies there (oob)
ByteAt(buf, p, oob) == IF p < Len(buf) THEN buf[p + 1] ELSE oob

\* the lambda get_bits of bitRead
get_bits(bits, cursor, buf, oob) ==
    (ByteAt(buf, cursor.bytePtr, oob) \div Pow2(8 - cursor.curBit - bits)) % Pow2(bits)

\* reads "bits" bits at the cursor; yields the value and the new cursor
RECURSIVE bitReadLoop(_, _, _, _, _)
bitReadLoop(bits, data, cursor, buf, oob) ==
    IF bits <= 0
    THEN [data |-> data, cursor |-> cursor]
    ELSE LET bitsLeftInByte == 8 - cursor.curBit IN
         IF bitsLeftInByte > bits
         THEN LET dataRead == get_bits(bits, cursor, buf, oob)
              IN bitReadLoop(0, BitOr(Shl(data, bits), WordOf(dataRead)),
                             Cursor(cursor.bytePtr, cursor.curBit + bits), buf, oob)
         ELSE LET dataRead == get_bits(bitsLeftInByte, cursor, buf, oob)
              IN bitReadLoop(bits - bitsLeftInByte,
                             BitOr(Shl(data, bitsLeftInByte), WordOf(dataRead)),
                             Cursor(cursor.bytePtr + 1, 0), buf, oob)

bitRead(bits, cursor, buf, oob) == bitReadLoop(bits, ZeroWord, cursor, buf, oob)

\* ------------------------------------------------------------ tree nodes
\* node pointers: nullptr, &sorted_leaf_nodes[i], &internal_nodes[i]
NULL == [arr |-> "null", idx |-> 0]
LeafPtr(i) == [arr |-> "leaf", idx |-> i]
InternalPtr(i) == [arr |-> "internal", idx |-> i]

\* struct node
Node(ch, cnt, internal, par, l, r) ==
    [character |-> ch, count |-> cnt, internal_node |-> internal,
     parent |-> par, left |-> l, right |-> r]

\* struct code
Code(len, val) == [length |-> len, value |-> val]

\* ------------------------------------------------------ frequency counter
RECURSIVE count_loop(_, _, _, _)
count_loop(i, in, freq, mx) ==
    IF i > Len(in)
    THEN [char_frequency |-> freq, max_freq |-> mx]
    ELSE LET f1 == [freq EXCEPT ![in[i]] = AddU(@, 1)]
         IN count_loop(i + 1, in, f1, IF f1[in[i]] > mx THEN f1[in[i]] ELSE mx)

\* count_chars: max_freq is reset, char_frequency is accumulated
count_chars(in, freq) == count_loop(1, in, freq, 0)

\* ------------------------------------------------------------ radix sorter
\* (char_frequency[c] / div) % 10
Digit(freq, c, div) == (freq[c] \div div) % 10

\* sort_radix: counting sort of in_array by decimal digit r of the frequency.
\* The counts and prefix-sum offsets give symbol d the slots after those of
\* the symbols below d, and the scatter loop fills them in input order: the
\* output is the elements with symbol 0 in input order, then those with
\* symbol 1, and so on.  Arrays unsigned char[256] are sequences of length
\* 256 (array index i is sequence index i + 1).
Bucket(d, r, in_array, freq) ==
    SelectSeq(in_array, LAMBDA c : Digit(freq, c, Pow10(r)) = d)

sort_radix(r, in_array, freq) ==
    Bucket(0, r, in_array, freq) \o Bucket(1, r, in_array, freq) \o
    Bucket(2, r, in_array, freq) \o Bucket(3, r, in_array, freq) \o
    Bucket(4, r, in_array, freq) \o Bucket(5, r, in_array, freq) \o
    Bucket(6, r, in_array, freq) \o Bucket(7, r, in_array, freq) \o
    Bucket(8, r, in_array, freq) \o Bucket(9, r, in_array, freq)

\* (int)ceil(log10(m)): the least k with 10^k >= m.  For m = 0 the C++
\* value is the conversion of -infinity, which is negative on every build,
\* so the pass loop does not run: 0 passes.
RECURSIVE CeilLog10From(_, _)
CeilLog10From(m, k) == IF Pow10(k) >= m THEN k ELSE CeilLog10From(m, k + 1)
max_radix(mx) == IF mx = 0 THEN 0 ELSE CeilLog10From(mx, 0)

RECURSIVE radix_passes(_, _, _, _)
radix_passes(i, passes, arr, freq) ==
    IF i >= passes THEN arr ELSE radix_passes(i + 1, passes, sort_radix(i, arr, freq), freq)

\* the leaf nodes for the byte values of nonzero frequency, in array order,
\* and the sentinel after them: slots 0..n of sorted_leaf_nodes
leaf_list(present, freq) ==
    [i \in 0..Len(present) |->
        IF i < Len(present)
        THEN Node(present[i + 1], freq[present[i + 1]], FALSE, NULL, NULL, NULL)
        ELSE Node(0, LAST_NODE, FALSE, NULL, NULL, NULL)]

\* sort_chars
sort_chars(freq, mx) ==
    leaf_list(SelectSeq(radix_passes(0, max_radix(mx), [i \in 1..NumChars |-> i - 1], freq),
                        LAMBDA c : freq[c] > 0),
              freq)

\* ------------------------------------------------------------ tree builder
\* *p for a node pointer p
Deref(p, leaves, internals) ==
    IF p.arr = "leaf" THEN leaves[p.idx] ELSE internals[p.idx]

\* std::priority_queue<node*, ..., cmp> with cmp(l, r) = l->count > r->count:
\* a sequence kept in ascending order of count, top at the head.  The order
\* among equal counts is the library's choice; order is "fifo" or "lifo".
q_push(q, p, internals, order) ==
    LET c == internals[p.idx].count
        k == IF order = "fifo"
             THEN Cardinality({j \in 1..Len(q) : internals[q[j].idx].count <= c})
             ELSE Cardinality({j \in 1..Len(q) : internals[q[j].idx].count < c})
    IN SubSeq(q, 1, k) \o <<p>> \o SubSeq(q, k + 1, Len(q))

q_top(q) == Head(q)
q_pop(q) == Tail(q)

\* get_min_node comparing with <= : the leaf is preferred on equal counts
get_min_node_leaf_on_tie(q, lidx, leaves, internals) ==
    IF q = <<>> \/ leaves[lidx].count <= internals[q_top(q).idx].count
    THEN [ret |-> LeafPtr(lidx), node_q |-> q, leaf_idx |-> lidx + 1]
    ELSE [ret |-> q_top(q), node_q |-> q_pop(q), leaf_idx |-> lidx]

\* the lambda get_min_node: the node returned, and the queue and leaf index
\* it leaves behind
get_min_node(q, lidx, leaves, internals) ==
    IF q = <<>> \/ leaves[lidx].count < internals[q_top(q).idx].count
    THEN [ret |-> LeafPtr(lidx), node_q |-> q, leaf_idx |-> lidx + 1]
    ELSE [ret |-> q_top(q), node_q |-> q_pop(q), leaf_idx |-> lidx]

\* *p = n
Store(p, n, leaves, internals) ==
    IF p.arr = "leaf"
    THEN [leaves |-> [leaves EXCEPT ![p.idx] = n], internals |-> internals]
    ELSE [leaves |-> leaves, internals |-> [internals EXCEPT ![p.idx] = n]]

\* the lambda build_node: internal_nodes[iidx] becomes the parent of l and r
build_node(l, r, iidx, leaves, internals) ==
    LET ln == Deref(l, leaves, internals)
        rn == Deref(r, leaves, internals)
        new_node == Node(0, AddU(ln.count, rn.count), TRUE, NULL, l, r)
        i1 == [i \in (DOMAIN internals) \cup {iidx} |->
                 IF i = iidx THEN new_node ELSE internals[i]]
        s1 == Store(l, [Deref(l, leaves, i1) EXCEPT !.parent = InternalPtr(iidx)], leaves, i1)
        s2 == Store(r, [Deref(r, s1.leaves, s1.internals) EXCEPT !.parent = InternalPtr(iidx)],
                    s1.leaves, s1.internals)
    IN [ret |-> InternalPtr(iidx), leaves |-> s2.leaves, internals |-> s2.internals]

\* ---------------------------------------------------------- code generator
\* gen_codes(node*, code): the assignments codes[character] = cur_code made
\* by the traversal, as a set of (character, code) pairs
RECURSIVE gen_codes(_, _, _, _)
gen_codes(p, cur_code, leaves, internals) ==
    LET n == Deref(p, leaves, internals) IN
    IF n.internal_node
    THEN LET c0 == Code(cur_code.length + 1, Shl(cur_code.value, 1))
             c1 == Code(c0.length, BitOr(c0.value, WordOf(1)))
         IN gen_codes(n.left, c0, leaves, internals) \cup
            gen_codes(n.right, c1, leaves, internals)
    ELSE {<<n.character, cur_code>>}

\* ------------------------------------------------------------------ state
VARIABLES
    mode,               \* the entry point running: "encode", "decode", or "tree" (huff_tree alone), "bits" (the bit packer alone)
    pc,                 \* the position inside it
    tie_order,          \* how the library's priority queue orders equal counts
    bufin,              \* huffman_encode's input bytes
    char_frequency, max_freq, sorted_leaf_nodes, internal_nodes, head, codes,
    node_q, leaf_idx, internal_idx, left, right,
    bufout, bufoutlen, outCursor, enc_i,
    dec_len, dec_bufinlen, uniqueChars, dec_out, dec_cap, dec_n, inCursor, currentNode,
    wbuf, wcur, items, rcur, reads

ctlVars == <<mode, tie_order, bufin>>
codecVars == <<char_frequency, max_freq, sorted_leaf_nodes, internal_nodes, head, codes>>
treeVars == <<node_q, leaf_idx, internal_idx, left, right>>
encVars == <<bufout, bufoutlen, outCursor, enc_i>>
decVars == <<dec_len, dec_bufinlen, uniqueChars, dec_out, dec_cap, dec_n, inCursor, currentNode>>
bitVars == <<wbuf, wcur, items, rcur, reads>>
vars == <<pc, ctlVars, codecVars, treeVars, encVars, decVars, bitVars>>

\* ------------------------------------------------------------ input sets
\* byte values occurring in the inputs of huffman_encode
InputBytes == {0, 65, 66}

RECURSIVE SeqsUpTo(_, _)
SeqsUpTo(S, n) ==
    IF n = 0 THEN {<<>>}
    ELSE LET shorter == SeqsUpTo(S, n - 1)
         IN shorter \cup {Append(s, x) : s \in {t \in shorter : Len(t) = n - 1}, x \in S}

Inputs == SeqsUpTo(InputBytes, MaxLen)

\* what a read of a node slot that was never written may find in its count
GarbageCounts == {0, LAST_NODE}

\* a freshly constructed huffman_codec: char_frequency = {}, max_freq = 0,
\* head = nullptr; no slot of sorted_leaf_nodes, internal_nodes or codes has
\* been written (these arrays hold only the slots written so far)
FreshCodec ==
    /\ char_frequency = [c \in Chars |-> 0]
    /\ max_freq = 0
    /\ sorted_leaf_nodes = <<>>
    /\ internal_nodes = <<>>
    /\ head = NULL
    /\ codes = <<>>

IdleTree ==
    /\ node_q = <<>> /\ leaf_idx = 0 /\ internal_idx = 0
    /\ left = NULL /\ right = NULL

IdleEnc ==
    /\ bufout = <<>> /\ bufoutlen = 0 /\ outCursor = Cursor(0, 0) /\ enc_i = 0

IdleDec ==
    /\ dec_len = 0 /\ dec_bufinlen = 0 /\ uniqueChars = 0 /\ dec_out = <<>>
    /\ dec_cap = 0 /\ dec_n = 0 /\ inCursor = Cursor(0, 0) /\ currentNode = NULL

IdleBits ==
    /\ wbuf = <<>> /\ wcur = Cursor(0, 0) /\ items = <<>>
    /\ rcur = Cursor(0, 0) /\ reads = <<>>

\* huffman_encode is entered with input bufin and a new codec
Init ==
    /\ mode = "encode"
    /\ pc = "count_chars"
    /\ tie_order \in {"fifo", "lifo"}
    /\ bufin \in Inputs
    /\ FreshCodec /\ IdleTree /\ IdleEnc /\ IdleDec /\ IdleBits

\* ---------------------------------------------------------------- actions
\* codec.count_chars(bufin, bufinlen)
CountChars ==
    /\ pc = "count_chars"
    /\ LET r == count_chars(bufin, char_frequency) IN
         /\ char_frequency' = r.char_frequency
         /\ max_freq' = r.max_freq
    /\ pc' = "sort_chars"
    /\ UNCHANGED <<ctlVars, sorted_leaf_nodes, internal_nodes, head, codes,
                   treeVars, encVars, decVars, bitVars>>

\* huff_tree up to its loop: sort_chars(), the empty queue, the indices, head
SortChars ==
    /\ pc = "sort_chars"
    /\ sorted_leaf_nodes' = sort_chars(char_frequency, max_freq)
    /\ node_q' = <<>>
    /\ leaf_idx' = 0
    /\ internal_idx' = 0
    /\ head' = NULL
    /\ pc' = "get_left"
    /\ UNCHANGED <<ctlVars, char_frequency, max_freq, internal_nodes, codes,
                   left, right, encVars, decVars, bitVars>>

\* left = get_min_node()
GetMinLeft ==
    /\ pc = "get_left"
    /\ LET r == get_min_node(node_q, leaf_idx, sorted_leaf_nodes, internal_nodes) IN
         /\ left' = r.ret
         /\ node_q' = r.node_q
         /\ leaf_idx' = r.leaf_idx
    /\ pc' = "check"
    /\ UNCHANGED <<ctlVars, codecVars, internal_idx, right, encVars, decVars, bitVars>>

\* where huff_tree's caller goes on
AfterTree == IF mode = "decode" THEN "malloc" ELSE "gen_codes"

\* if (sorted_leaf_nodes[leaf_idx].count == LAST_NODE && node_q.empty()) head = left
TreeDone ==
    /\ pc = "check"
    /\ leaf_idx \in DOMAIN sorted_leaf_nodes
    /\ sorted_leaf_nodes[leaf_idx].count = LAST_NODE /\ node_q = <<>>
    /\ head' = left
    /\ pc' = AfterTree
    /\ UNCHANGED <<ctlVars, char_frequency, max_freq, sorted_leaf_nodes, internal_nodes,
                   codes, treeVars, encVars, decVars, bitVars>>

\* else: on to right = get_min_node()
TreeContinue ==
    /\ pc = "check"
    /\ leaf_idx \in DOMAIN sorted_leaf_nodes
    /\ ~(sorted_leaf_nodes[leaf_idx].count = LAST_NODE /\ node_q = <<>>)
    /\ pc' = "get_right"
    /\ UNCHANGED <<ctlVars, codecVars, treeVars, encVars, decVars, bitVars>>

\* the same test when slot leaf_idx was never written: its count is
\* whatever the memory holds.  Found equal to LAST_NODE the loop ends with
\* head = left; otherwise the loop goes on merging unwritten slots, which
\* is followed no further ("undefined").
TreeReadUnwritten ==
    /\ pc = "check"
    /\ leaf_idx \notin DOMAIN sorted_leaf_nodes
    /\ \E junk \in GarbageCounts :
         IF junk = LAST_NODE /\ node_q = <<>>
         THEN head' = left /\ pc' = AfterTree
         ELSE head' = head /\ pc' = "undefined"
    /\ UNCHANGED <<ctlVars, char_frequency, max_freq, sorted_leaf_nodes, internal_nodes,
                   codes, treeVars, encVars, decVars, bitVars>>

\* right = get_min_node()
GetMinRight ==
    /\ pc = "get_right"
    /\ LET r == get_min_node(node_q, leaf_idx, sorted_leaf_nodes, internal_nodes) IN
         /\ right' = r.ret
         /\ node_q' = r.node_q
         /\ leaf_idx' = r.leaf_idx
    /\ pc' = "build"
    /\ UNCHANGED <<ctlVars, codecVars, internal_idx, left, encVars, decVars, bitVars>>

\* node_q.push(build_node(left, right))
BuildNode ==
    /\ pc = "build"
    /\ LET r == build_node(left, right, internal_idx, sorted_leaf_nodes, internal_nodes) IN
         /\ sorted_leaf_nodes' = r.leaves
         /\ internal_nodes' = r.internals
         /\ node_q' = q_push(node_q, r.ret, r.internals, tie_order)
    /\ internal_idx' = internal_idx + 1
    /\ pc' = "get_left"
    /\ UNCHANGED <<ctlVars, char_frequency, max_freq, head, codes,
                   leaf_idx, left, right, encVars, decVars, bitVars>>

\* codec.gen_codes(): gen_codes(head, {0, 0})
GenCodes ==
    /\ pc = "gen_codes"
    /\ LET pairs == gen_codes(head, Code(0, ZeroWord), sorted_leaf_nodes, internal_nodes)
           assigned == {p[1] : p \in pairs}
       IN codes' = [c \in (DOMAIN codes) \cup assigned |->
                      IF c \in assigned
                      THEN (CHOOSE p \in pairs : p[1] = c)[2]
                      ELSE codes[c]]
    /\ pc' = IF mode = "tree" THEN "tree_done" ELSE "alloc"
    /\ UNCHANGED <<ctlVars, char_frequency, max_freq, sorted_leaf_nodes, internal_nodes,
                   head, treeVars, encVars, decVars, bitVars>>

\* ------------------------------------------------------- huffman_encode
\* calc_out_buff_size: (bit_count + 7) / 8 + sizeof(char_frequency).  A
\* byte value of frequency 0 adds 0 whatever its codes[] slot holds.
RECURSIVE bit_count(_, _, _)
bit_count(S, freq, cds) ==
    IF S = {} THEN 0
    ELSE LET c == CHOOSE x \in S : TRUE
         IN freq[c] * cds[c].length + bit_count(S \ {c}, freq, cds)

calc_out_buff_size(freq, cds) ==
    ((bit_count({c \in Chars : freq[c] > 0}, freq, cds) + 7) \div 8) + HeaderBytes

\* byte k (0 = lowest address) of an unsigned int stored in memory
IntByte(n, k) == (n \div Pow2(8 * k)) % 256

\* the unsigned int stored at byte offset p of buf
IntAt(buf, p) ==
    buf[p + 1] + 256 * buf[p + 2] + 65536 * buf[p + 3] + 16777216 * buf[p + 4]

\* *pbufoutlen = calc_out_buff_size(); malloc; memset(0)
AllocOut ==
    /\ pc = "alloc"
    /\ bufoutlen' = calc_out_buff_size(char_frequency, codes)
    /\ bufout' = [i \in 1..calc_out_buff_size(char_frequency, codes) |-> 0]
    /\ pc' = "write_char_freq"
    /\ UNCHANGED <<ctlVars, codecVars, treeVars, outCursor, enc_i, decVars, bitVars>>

\* write_char_freq: the 256 counts, 4 bytes each, in byte-value order; the
\* write pointer ends after them, where encode() sets up its cursor
WriteCharFreq ==
    /\ pc = "write_char_freq"
    /\ bufout' = [i \in 1..Len(bufout) |->
                    IF i <= HeaderBytes
                    THEN IntByte(char_frequency[(i - 1) \div 4], (i - 1) % 4)
                    ELSE bufout[i]]
    /\ outCursor' = Cursor(HeaderBytes, 0)
    /\ enc_i' = 0
    /\ pc' = "encode"
    /\ UNCHANGED <<ctlVars, codecVars, treeVars, bufoutlen, decVars, bitVars>>

\* one iteration of encode's loop: bitWrite(codes[bufin[i]].length, .value)
EncodeStep ==
    /\ pc = "encode"
    /\ enc_i < Len(bufin)
    /\ LET cd == codes[bufin[enc_i + 1]]
           r == bitWrite(cd.length, cd.value, outCursor, bufout)
       IN /\ bufout' = r.buf
          /\ outCursor' = r.cursor
    /\ enc_i' = enc_i + 1
    /\ UNCHANGED <<pc, ctlVars, codecVars, treeVars, bufoutlen, decVars, bitVars>>

\* the loop ends; huffman_encode returns 0
EncodeReturn ==
    /\ pc = "encode"
    /\ enc_i >= Len(bufin)
    /\ pc' = "enc_done"
    /\ UNCHANGED <<ctlVars, codecVars, treeVars, encVars, decVars, bitVars>>

\* ------------------------------------------------------- huffman_decode
\* values the caller's length variable may hold when huffman_decode is called
CallerLens == {0, 7, UINT_MAX}

\* what a byte past the end of the input buffer may read as
OobBytes == {0, 255}

\* huffman_decode is called on the buffer huffman_encode returned: a new
\* codec, *pbufoutlen as the caller left it
DecodeCall ==
    /\ pc = "enc_done"
    /\ mode' = "decode"
    /\ pc' = "read_char_freq"
    /\ char_frequency' = [c \in Chars |-> 0]
    /\ max_freq' = 0
    /\ sorted_leaf_nodes' = <<>>
    /\ internal_nodes' = <<>>
    /\ head' = NULL
    /\ codes' = <<>>
    /\ dec_len' \in CallerLens
    /\ dec_bufinlen' = bufoutlen
    /\ UNCHANGED <<tie_order, bufin, treeVars, encVars, uniqueChars, dec_out, dec_cap,
                   dec_n, inCursor, currentNode, bitVars>>

\* totalSize += char_frequency[i] over the table
RECURSIVE add_all(_, _, _)
add_all(S, f, acc) ==
    IF S = {} THEN acc
    ELSE LET c == CHOOSE x \in S : TRUE IN add_all(S \ {c}, f, AddU(acc, f[c]))

\* read_char_freq
ReadCharFreq ==
    /\ pc = "read_char_freq"
    /\ LET table == [c \in Chars |-> IntAt(bufout, 4 * c)] IN
         /\ char_frequency' = table
         /\ max_freq' = CHOOSE m \in {table[c] : c \in Chars} : \A c \in Chars : table[c] <= m
         /\ uniqueChars' = Cardinality({c \in Chars : table[c] > 0})
         /\ dec_len' = add_all({c \in Chars : table[c] > 0}, table, dec_len)
    /\ dec_bufinlen' = SubU(dec_bufinlen, HeaderBytes)
    /\ pc' = "sort_chars"
    /\ UNCHANGED <<ctlVars, sorted_leaf_nodes, internal_nodes, head, codes, treeVars,
                   encVars, dec_out, dec_cap, dec_n, inCursor, currentNode, bitVars>>

\* *pbufout = malloc(*pbufoutlen + 1); decode() sets its cursor after the
\* header and starts at head
Malloc ==
    /\ pc = "malloc"
    /\ dec_cap' = AddU(dec_len, 1)
    /\ dec_out' = <<>>
    /\ dec_n' = 0
    /\ inCursor' = Cursor(HeaderBytes, 0)
    /\ currentNode' = head
    /\ pc' = "decode"
    /\ UNCHANGED <<ctlVars, codecVars, treeVars, encVars, dec_len, dec_bufinlen,
                   uniqueChars, bitVars>>

\* buf[k] = v for an output buffer that holds the offsets written so far
Put(f, k, v) == [i \in (DOMAIN f) \cup {k} |-> IF i = k THEN v ELSE f[i]]

\* one iteration of decode's loop
DecodeStep ==
    /\ pc = "decode"
    /\ uniqueChars > 0
    /\ \E oob \in OobBytes :
         LET rd == bitRead(1, inCursor, bufout, oob)
             curBit == LowByte(rd.data)
             n0 == Deref(currentNode, sorted_leaf_nodes, internal_nodes)
             p1 == IF n0.internal_node
                   THEN (IF curBit = 0 THEN n0.left ELSE n0.right)
                   ELSE currentNode
             n1 == Deref(p1, sorted_leaf_nodes, internal_nodes)
         IN /\ inCursor' = rd.cursor
            /\ IF ~n1.internal_node
               THEN /\ dec_out' = Put(dec_out, dec_n, n1.character)
                    /\ dec_n' = dec_n + 1
                    /\ char_frequency' = [char_frequency EXCEPT ![n1.character] = SubU(@, 1)]
                    /\ uniqueChars' = IF SubU(char_frequency[n1.character], 1) = 0
                                      THEN uniqueChars - 1 ELSE uniqueChars
                    /\ currentNode' = head
               ELSE /\ currentNode' = p1
                    /\ UNCHANGED <<dec_out, dec_n, char_frequency, uniqueChars>>
    /\ UNCHANGED <<pc, ctlVars, max_freq, sorted_leaf_nodes, internal_nodes, head, codes,
                   treeVars, encVars, dec_len, dec_bufinlen, dec_cap, bitVars>>

\* the read of decode's loop lies past the end of the input buffer and the
\* access is trapped
DecodeReadFault ==
    /\ pc = "decode"
    /\ uniqueChars > 0
    /\ inCursor.bytePtr >= Len(bufout)
    /\ pc' = "fault"
    /\ UNCHANGED <<ctlVars, codecVars, treeVars, encVars, decVars, bitVars>>

\* the loop ends; (*pbufout)[*pbufoutlen] = 0; *pbufoutlen += 1.  A
\* terminator index outside the allocation is a wild write ("fault").
DecodeReturn ==
    /\ pc = "decode"
    /\ uniqueChars = 0
    /\ IF dec_len < dec_cap
       THEN /\ dec_out' = Put(dec_out, dec_len, 0)
            /\ dec_len' = AddU(dec_len, 1)
            /\ pc' = "dec_done"
       ELSE /\ pc' = "fault"
            /\ UNCHANGED <<dec_out, dec_len>>
    /\ UNCHANGED <<ctlVars, codecVars, treeVars, encVars, dec_bufinlen, uniqueChars,
                   dec_cap, dec_n, inCursor, currentNode, bitVars>>

Next ==
    \/ CountChars
    \/ SortChars
    \/ GetMinLeft
    \/ TreeDone
    \/ TreeContinue
    \/ TreeReadUnwritten
    \/ GetMinRight
    \/ BuildNode
    \/ GenCodes
    \/ AllocOut
    \/ WriteCharFreq
    \/ EncodeStep
    \/ EncodeReturn
    \/ DecodeCall
    \/ ReadCharFreq
    \/ Malloc
    \/ DecodeStep
    \/ DecodeReadFault
    \/ DecodeReturn

Spec == Init /\ [][Next]_vars

\* -------------------------------------------- properties of the codec
\* the frequency table stored in the header of the encoded buffer
HeaderTable == [c \in Chars |-> IntAt(bufout, 4 * c)]

\* bits between the end of the header and a cursor
BitsPast(cursor) == 8 * (cursor.bytePtr - HeaderBytes) + cursor.curBit

\* C1 (round trip): for a non-empty input, huffman_decode on the buffer of
\* huffman_encode returns, and the first len(b) bytes of its output are b.
C1_RoundTrip ==
    (mode = "decode" /\ bufin # <<>> /\ pc \in {"dec_done", "fault", "undefined"}) =>
        /\ pc = "dec_done"
        /\ \A i \in 1..Len(bufin) :
              (i - 1) \in DOMAIN dec_out /\ dec_out[i - 1] = bufin[i]

\* C2 (empty input): huffman_encode of the empty input completes with a
\* 1024-byte all-zero buffer, tree construction uses no leaf slot past the
\* sentinel, and huffman_decode of that buffer completes emitting nothing.
C2_EmptyInput ==
    (mode \in {"encode", "decode"} /\ bufin = <<>>) =>
        /\ pc \notin {"undefined", "fault"}
        /\ pc \in {"get_left", "check", "get_right", "build"} =>
              leaf_idx \in DOMAIN sorted_leaf_nodes
        /\ pc = "enc_done" =>
              bufoutlen = HeaderBytes /\ bufout = [i \in 1..HeaderBytes |-> 0]
        /\ pc = "dec_done" => dec_n = 0

\* C3 (bit symmetry): for a non-empty input the decoder never reads past the
\* end of the encoded buffer and, when done, has consumed exactly the bits
\* the encoder packed (none for a single-symbol input).
C3_BitSymmetry ==
    (mode = "decode" /\ bufin # <<>>) =>
        /\ pc \in {"decode", "dec_done", "fault"} =>
              8 * inCursor.bytePtr + inCursor.curBit <= 8 * Len(bufout)
        /\ pc \in {"decode", "dec_done", "fault"} => BitsPast(inCursor) <= BitsPast(outCursor)
        /\ pc = "dec_done" => BitsPast(inCursor) = BitsPast(outCursor)
        /\ pc # "fault"

\* C4 (reported length): *pbufoutlen on return from huffman_decode is the
\* sum of the 256 header counts (the length of the original input, here not
\* empty), whatever it held before the call.
C4_OutLen ==
    (pc = "dec_done" /\ bufin # <<>>) =>
        dec_len = add_all({c \in Chars : HeaderTable[c] > 0}, HeaderTable, 0)

\* ------------------------------------------------ the bit packer on its own
\* bit counts and values handed to bitWrite
BitCounts == {0, 1, 7, 9, 32}
BitValues(n) ==
    IF n = 0 THEN {ZeroWord}
    ELSE {ZeroWord, LowMask(n), Shl(WordOf(1), n - 1)}

\* a zeroed buffer large enough for MaxItems writes of 32 bits
BitBufLen == 4 * MaxItems

InitBits ==
    /\ mode = "bits"
    /\ pc = "bit_write"
    /\ tie_order = "fifo"
    /\ bufin = <<>>
    /\ FreshCodec /\ IdleTree /\ IdleEnc /\ IdleDec
    /\ wbuf = [i \in 1..BitBufLen |-> 0]
    /\ wcur = Cursor(0, 0)
    /\ items = <<>>
    /\ rcur = Cursor(0, 0)
    /\ reads = <<>>

\* bitWrite(n, v, cursor)
BitWriteItem ==
    /\ pc = "bit_write"
    /\ Len(items) < MaxItems
    /\ \E n \in BitCounts : \E v \in BitValues(n) :
         LET r == bitWrite(n, v, wcur, wbuf) IN
         /\ wbuf' = r.buf
         /\ wcur' = r.cursor
         /\ items' = Append(items, [bits |-> n, value |-> v])
    /\ UNCHANGED <<pc, ctlVars, codecVars, treeVars, encVars, decVars, rcur, reads>>

\* a read cursor is set at the start of the buffer
BitStartRead ==
    /\ pc = "bit_write"
    /\ items # <<>>
    /\ rcur' = Cursor(0, 0)
    /\ pc' = "bit_read"
    /\ UNCHANGED <<ctlVars, codecVars, treeVars, encVars, decVars, wbuf, wcur, items, reads>>

\* bitRead(n, cursor) with the bit count of the next item written
BitReadItem ==
    /\ pc = "bit_read"
    /\ Len(reads) < Len(items)
    /\ LET r == bitRead(items[Len(reads) + 1].bits, rcur, wbuf, 0) IN
         /\ reads' = Append(reads, r.data)
         /\ rcur' = r.cursor
    /\ UNCHANGED <<pc, ctlVars, codecVars, treeVars, encVars, decVars, wbuf, wcur, items>>

NextBits ==
    \/ BitWriteItem
    \/ BitStartRead
    \/ BitReadItem

SpecBits == InitBits /\ [][NextBits]_vars

RECURSIVE SumBits(_, _)
SumBits(its, k) == IF k = 0 THEN 0 ELSE its[k].bits + SumBits(its, k - 1)

\* C10 (bit packer round trip): reading back with the same bit counts
\* returns the values written, in order; every call advances its cursor by
\* exactly its bit count and the bit offset stays in 0..7.
C10_BitRoundTrip ==
    mode = "bits" =>
        /\ wcur.curBit \in 0..7 /\ rcur.curBit \in 0..7
        /\ 8 * wcur.bytePtr + wcur.curBit = SumBits(items, Len(items))
        /\ 8 * rcur.bytePtr + rcur.curBit = SumBits(items, Len(reads))
        /\ \A k \in 1..Len(reads) : reads[k] = items[k].value

\* ------------------------------------------------ huff_tree on its own
\* the Fibonacci numbers 1, 1, 2, 3, 5, ...
RECURSIVE Fib(_)
Fib(n) == IF n <= 2 THEN 1 ELSE Fib(n - 1) + Fib(n - 2)

\* number of byte values in the skewed frequency table
FibSyms == 34

\* byte value c occurs Fib(c) times, for c in 1..FibSyms
RECURSIVE FibSeq(_)
FibSeq(n) == IF n <= 2 THEN [i \in 1..n |-> 1]
             ELSE LET s == FibSeq(n - 1) IN Append(s, s[n - 1] + s[n - 2])
FibTable == LET f == FibSeq(FibSyms) IN
            [c \in Chars |-> IF c \in 1..FibSyms THEN f[c] ELSE 0]

\* byte values and counts of the small frequency tables
TreeBytes == <<0, 65, 66, 255>>
CountVals == (0..MaxCount) \cup {5, 10}
SmallTables ==
    {[c \in Chars |-> IF c = TreeBytes[1] THEN t[1]
                      ELSE IF c = TreeBytes[2] THEN t[2]
                      ELSE IF c = TreeBytes[3] THEN t[3]
                      ELSE IF c = TreeBytes[4] THEN t[4] ELSE 0]
       : t \in [1..4 -> CountVals]}
FreqTables == SmallTables \cup {FibTable}

\* the largest entry of a frequency table
MaxOf(f) == CHOOSE m \in {f[c] : c \in Chars} : \A c \in Chars : f[c] <= m

\* the codec after count_chars on an input with the frequencies of a table
InitTree ==
    /\ mode = "tree"
    /\ pc = "sort_chars"
    /\ tie_order \in {"fifo", "lifo"}
    /\ bufin = <<>>
    /\ char_frequency \in FreqTables
    /\ max_freq = MaxOf(char_frequency)
    /\ sorted_leaf_nodes = <<>> /\ internal_nodes = <<>> /\ head = NULL /\ codes = <<>>
    /\ IdleTree /\ IdleEnc /\ IdleDec /\ IdleBits

NextTree ==
    \/ SortChars
    \/ GetMinLeft
    \/ TreeDone
    \/ TreeContinue
    \/ TreeReadUnwritten
    \/ GetMinRight
    \/ BuildNode
    \/ GenCodes

SpecTree == InitTree /\ [][NextTree]_vars

\* ------------------------------------------------- properties of huff_tree
\* the byte values that occur (nonzero frequency)
Present == {c \in Chars : char_frequency[c] > 0}

\* the leaf slots before the sentinel
RealLeaves == {i \in DOMAIN sorted_leaf_nodes : sorted_leaf_nodes[i].count # LAST_NODE}

\* C7 (sort order): once sort_chars has run, the leaf list holds exactly the
\* byte values of nonzero frequency, in ascending order of frequency with
\* ties in ascending byte value, followed by one sentinel of count UINT_MAX.
C7_SortOrder ==
    (mode = "tree" /\ pc # "sort_chars") =>
        LET n == Cardinality(Present) IN
        /\ DOMAIN sorted_leaf_nodes = 0..n
        /\ sorted_leaf_nodes[n].count = LAST_NODE
        /\ {sorted_leaf_nodes[i].character : i \in 0..(n - 1)} = Present
        /\ \A i \in 0..(n - 1) :
              sorted_leaf_nodes[i].count = char_frequency[sorted_leaf_nodes[i].character]
        /\ \A i, j \in 0..(n - 1) :
              i < j =>
                \/ sorted_leaf_nodes[i].count < sorted_leaf_nodes[j].count
                \/ /\ sorted_leaf_nodes[i].count = sorted_leaf_nodes[j].count
                   /\ sorted_leaf_nodes[i].character < sorted_leaf_nodes[j].character

\* C8 (tie-breaking, as claimed): get_min_node never returns the internal
\* node when the next unread leaf has the same count.
C8_LeafOnTie ==
    /\ (pc = "check" /\ left.arr = "internal") =>
          sorted_leaf_nodes[leaf_idx].count # internal_nodes[left.idx].count
    /\ (pc = "build" /\ right.arr = "internal") =>
          sorted_leaf_nodes[leaf_idx].count # internal_nodes[right.idx].count

\* C8 (tie-breaking, amended): get_min_node returns the leaf only when the
\* queue is empty or the leaf's count is strictly smaller than the queue's
\* minimum; on equal counts it returns the internal node.
C8_InternalOnTie ==
    /\ (pc = "check" /\ left.arr = "leaf" /\ node_q # <<>>) =>
          sorted_leaf_nodes[left.idx].count < internal_nodes[q_top(node_q).idx].count
    /\ (pc = "build" /\ right.arr = "leaf" /\ node_q # <<>>) =>
          sorted_leaf_nodes[right.idx].count < internal_nodes[q_top(node_q).idx].count
    /\ (pc = "check" /\ left.arr = "internal") =>
          internal_nodes[left.idx].count <= sorted_leaf_nodes[leaf_idx].count
    /\ (pc = "build" /\ right.arr = "internal") =>
          internal_nodes[right.idx].count <= sorted_leaf_nodes[leaf_idx].count

\* get_min_node has just returned an internal node whose count equals that
\* of the next unread leaf
C8_TieWitness ==
    /\ pc = "check" /\ left.arr = "internal"
    /\ sorted_leaf_nodes[leaf_idx].count = internal_nodes[left.idx].count
    /\ sorted_leaf_nodes[leaf_idx].count # LAST_NODE

\* C9 (code width): every code assigned by gen_codes has length 0..32.
C9_CodeWidth ==
    pc = "tree_done" => \A c \in DOMAIN codes : codes[c].length \in 0..32

\* bit j (0 = last) of a code: the code is its value written in binary with
\* "length" digits, and the unsigned 32-bit value has no 1 above bit 31
CodeBit(code, j) == IF j <= 31 THEN code.value[j] ELSE 0

\* code a is a prefix of code b
IsPrefix(a, b) ==
    /\ a.length <= b.length
    /\ \A k \in 1..a.length :
          CodeBit(a, a.length - k) = CodeBit(b, b.length - k)

\* C5 (prefix-free codes): for distinct byte values of the input neither
\* code is a prefix of the other.
C5_PrefixFree ==
    pc = "tree_done" =>
        \A c1, c2 \in Present : c1 # c2 => ~IsPrefix(codes[c1], codes[c2])

\* the cost of Huffman's algorithm on a multiset of counts given as an
\* ascending sequence: the sum of the merged counts
InsertSorted(s, x) ==
    LET k == Cardinality({j \in 1..Len(s) : s[j] <= x})
    IN SubSeq(s, 1, k) \o <<x>> \o SubSeq(s, k + 1, Len(s))

RECURSIVE SortedCounts(_)
SortedCounts(S) ==
    IF S = {} THEN <<>>
    ELSE LET c == CHOOSE x \in S : TRUE
         IN InsertSorted(SortedCounts(S \ {c}), char_frequency[c])

RECURSIVE HuffmanCost(_)
HuffmanCost(s) ==
    IF Len(s) <= 1 THEN 0
    ELSE (s[1] + s[2]) + HuffmanCost(InsertSorted(SubSeq(s, 3, Len(s)), s[1] + s[2]))

RECURSIVE SumOver(_, _)
SumOver(S, f) ==
    IF S = {} THEN 0
    ELSE LET c == CHOOSE x \in S : TRUE IN f[c] + SumOver(S \ {c}, f)

\* total packed bits: sum over byte values of frequency times code length
PackedBits == SumOver(Present, [c \in Present |-> char_frequency[c] * codes[c].length])

\* the nodes not yet merged: the unread leaves and the queued internal nodes
UnmergedCounts ==
    {sorted_leaf_nodes[i].count : i \in {j \in RealLeaves : j >= leaf_idx}}
    \cup {internal_nodes[node_q[k].idx].count : k \in 1..Len(node_q)}

\* C6 (optimal tree): every merge takes the two smallest unmerged nodes and
\* the total packed bit count is the minimum over prefix codes.
C6_Optimal ==
    /\ pc = "build" =>
          LET lc == Deref(left, sorted_leaf_nodes, internal_nodes).count
              rc == Deref(right, sorted_leaf_nodes, internal_nodes).count
          IN lc <= rc /\ \A x \in UnmergedCounts : rc <= x
    /\ (pc = "tree_done" /\ Present # {}) =>
          PackedBits = HuffmanCost(SortedCounts(Present))

====
